---- MODULE Spec2Model ----
(***************************************************************************)
(* Detection-and-recording controller of the iMac Security System          *)
(* (src/imac-security(backup_nossh).py): CameraManager, AudioManager and   *)
(* the tick loop SecurityApp.update_preview with the handlers that change  *)
(* the recording state.                                                    *)
(*                                                                         *)
(* Time is counted in units of 100 ms (one root.after(100, ...) period).   *)
(* Movement percentages are counted in tenths of a percent.                *)
(***************************************************************************)
EXTENDS Integers, Naturals, Sequences, FiniteSets, TLC

(* ------------------------------------------------------------------ *)
(* Bounds of the model                                                  *)
(* ------------------------------------------------------------------ *)

\* time.time() at the first tick; the three timestamps start at 0 (epoch)
StartTime == 1000

\* number of update_preview invocations explored
MaxTicks == 2

\* linger scenario: the event happens within the first MaxLead ticks;
\* detector scenario: at most MaxLead quiet ticks precede the probed tick
MaxLead == 1

\* linger scenario: ticks explored past the end of the linger period
MaxOverrun == 2

\* detector scenario: largest changed-pixel percentage probed, in tenths
MaxPercentage == 60

\* throttle scenario: number of update_preview invocations explored
MaxBurst == 3

(* ------------------------------------------------------------------ *)
(* Program constants                                                    *)
(* ------------------------------------------------------------------ *)

\* root.after(100, self.update_preview): one time unit
TickPeriod == 1

\* current_time - self.last_voice_check_time > 0.3
VoiceCheckInterval == 3

\* if energy > 1500
EnergyThreshold == 1500

\* create_default_config: "motion_sensitivity": 20
DefaultSensitivity == 20

\* create_default_config: "post_detection_record_time": 10
DefaultPostDetection == 10

\* time units per second
UnitsPerSecond == 10

\* movement_percentage is counted in tenths of a percent
PercentScale == 10

\* ttk.Scale(from_=1, to=25) of the motion sensitivity
MinSensitivity == 1

MaxSensitivity == 25

\* one byte holds 256 values; a paInt16 sample is two bytes
ByteRange == 256

Resolutions == {"480p", "720p"}

\* create_default_config: "selected_camera_index": 0; the index decides
\* which device is opened and nothing else
CameraIndices == {0}

\* create_default_config: "selected_microphone_index": None
MicIndices == {"None"}

\* Delay between two ticks. root.after(100, ...) fires no earlier than
\* 100 ms after it was scheduled; a handler that blocks the event loop
\* (change_camera probes ten capture devices) delays it by whole seconds.
TickGaps == {TickPeriod, DefaultPostDetection * UnitsPerSecond}

\* changed-pixel percentage of a frame against the reference, in tenths
Percentages == {5, 15, 25}

\* mean absolute sample magnitude of an audio chunk
Energies == {1400, 1500, 1600}

Max(a, b) == IF a > b THEN a ELSE b

Abs(x) == IF x < 0 THEN -x ELSE x

One(b) == IF b THEN 1 ELSE 0

VARIABLES
  now,                      \* time.time() at the last tick
  ticks,                    \* history: update_preview invocations so far
  scheduled,                \* a root.after callback for update_preview is pending
  destroyed,                \* root.destroy() was called
  monitoring,               \* SecurityApp.monitoring
  last_motion_time,         \* SecurityApp.last_motion_time
  last_voice_time,          \* SecurityApp.last_voice_time
  last_voice_check_time,    \* SecurityApp.last_voice_check_time
  camera,                   \* CameraManager.camera: "None", "opened", "unopened", "released"
  selected_camera_index,    \* CameraManager.selected_camera_index
  resolution,               \* CameraManager.frame_width x frame_height
  prev_frame,               \* CameraManager.prev_frame: "None" or the size of the stored frame
  cam_is_recording,         \* CameraManager.is_recording
  video_writer,             \* CameraManager.video_writer: "None", "open", "unopened", "released"
  video_written,            \* frames written to the current video_writer
  motion_detected,          \* CameraManager.motion_detected
  background_subtractor,    \* CameraManager.background_subtractor: "initial" or "updated"
  stream,                   \* AudioManager.stream: "None", "open", "closed"
  selected_microphone_index,\* AudioManager.selected_microphone_index
  aud_is_recording,         \* AudioManager.is_recording
  frames,                   \* Len(AudioManager.frames)
  voice_detected,           \* AudioManager.voice_detected
  voice_detection_enabled,  \* AudioManager.voice_detection_enabled
  use_simple_motion_detection, \* config["use_simple_motion_detection"]
  motion_sensitivity,       \* CameraManager.motion_sensitivity
  post_detection_record_time, \* config["post_detection_record_time"]
  opened,                   \* history: sessions opened (start_recording pairs)
  session_time,             \* history: the time at which the last session was opened
  video_files,              \* history: video writers released
  audio_files,              \* history: wave files written
  ev,                       \* history: what the last update_preview observed
  probe,                    \* history: the detector inputs of the probed tick
  installer_root,           \* installer: the Tk window, "alive" or "destroyed"
  thread,                   \* installer: position of installation_thread
  dep_index,                \* installer: position of the loop over dependencies
  missing,                  \* installer: install_dependencies' list `missing`
  success,                  \* installer: the result of install_dependencies
  installation_complete,    \* installer: installation_complete[0]
  installation_successful,  \* installer: installation_successful[0]
  start_button,             \* installer: text, command and state of start_button
  cancel_button             \* installer: text, command and state of cancel_button

cfgVars == <<voice_detection_enabled, use_simple_motion_detection,
             motion_sensitivity, post_detection_record_time>>

timeVars == <<last_motion_time, last_voice_time, last_voice_check_time>>

camVars == <<camera, selected_camera_index, resolution, prev_frame,
             cam_is_recording, video_writer, video_written, motion_detected,
             background_subtractor>>

audVars == <<stream, selected_microphone_index, aud_is_recording, frames,
             voice_detected>>

histVars == <<opened, session_time, video_files, audio_files>>

\* the state of the installer program
instVars == <<installer_root, thread, dep_index, missing, success,
              installation_complete, installation_successful, start_button,
              cancel_button>>

\* the state of the security application
appVars == <<now, ticks, scheduled, destroyed, monitoring, timeVars, camVars,
             audVars, cfgVars, histVars, ev, probe>>

vars == <<appVars, instVars>>

\* the packages the installer installs, in the order of its loop
dependencies ==
  <<"opencv-python", "numpy", "pyaudio", "SpeechRecognition", "Pillow",
    "ttkbootstrap">>

\* the installer's window as main() builds it, before mainloop
InstallerInit ==
  /\ installer_root = "alive"
  /\ thread = "not started"
  /\ dep_index = 1
  /\ missing = {}
  /\ success = FALSE
  /\ installation_complete = FALSE
  /\ installation_successful = FALSE
  /\ start_button = [text |-> "Start Installation",
                     command |-> "start_installation",
                     state |-> "normal"]
  /\ cancel_button = [text |-> "Cancel",
                      command |-> "root.destroy",
                      state |-> "normal"]

\* no tick has been probed
NoProbe == [kind |-> "none"]

\* what one update_preview observed and did: whether a frame was read, the
\* two detector results, whether it started a recording, and how it ended
\* ("skip", "preview", "idle", "keep", "stop" or "raised")
Event(frame, motion, voice, started, outcome) ==
  [frame |-> frame, motion |-> motion, voice |-> voice, started |-> started,
   outcome |-> outcome]

(* ------------------------------------------------------------------ *)
(* Initial state: the application after SecurityApp.__init__ with the   *)
(* default configuration, before the first update_preview has run.     *)
(* ------------------------------------------------------------------ *)

\* CameraManager.open_camera: the VideoCapture object is kept whether or
\* not it could be opened (isOpened() is the returned value)
open_camera(ok) == IF ok THEN "opened" ELSE "unopened"

\* AudioManager.start_stream: on failure self.stream keeps its old value
start_stream(ok, old) == IF ok THEN "open" ELSE old

Init ==
  /\ now = StartTime
  /\ ticks = 0
  /\ scheduled = TRUE
  /\ destroyed = FALSE
  /\ monitoring = FALSE
  /\ last_motion_time = 0
  /\ last_voice_time = 0
  /\ last_voice_check_time = 0
  /\ camera \in {open_camera(ok) : ok \in BOOLEAN}
  /\ selected_camera_index = 0
  /\ resolution = "480p"
  /\ prev_frame = "None"
  /\ cam_is_recording = FALSE
  /\ video_writer = "None"
  /\ video_written = 0
  /\ motion_detected = FALSE
  /\ background_subtractor = "initial"
  /\ stream \in {start_stream(ok, "None") : ok \in BOOLEAN}
  /\ selected_microphone_index = "None"
  /\ aud_is_recording = FALSE
  /\ frames = 0
  /\ voice_detected = FALSE
  /\ voice_detection_enabled = TRUE
  /\ use_simple_motion_detection = TRUE
  /\ motion_sensitivity = DefaultSensitivity
  /\ post_detection_record_time = DefaultPostDetection
  /\ opened = 0
  /\ session_time = 0
  /\ video_files = 0
  /\ audio_files = 0
  /\ ev = Event(FALSE, FALSE, FALSE, FALSE, "none")
  /\ probe = NoProbe
  /\ InstallerInit

(* ------------------------------------------------------------------ *)
(* CameraManager                                                        *)
(* ------------------------------------------------------------------ *)

\* camera.read(): a frame is returned only by an opened capture, and only
\* when the device delivers one (ret)
FrameAcquired(ret) == camera = "opened" /\ ret

\* cv2.absdiff(self.prev_frame, gray) raises when the stored reference and
\* the current frame differ in size
AbsdiffRaises(pf, size, simple) == simple /\ pf # "None" /\ pf # size

\* variant: FastDifference compares even when no reference is stored
detect_motion_without_reference(pf, pct, sensitivity, simple) ==
  IF simple
    THEN pct > 2 * (30 - sensitivity)
    ELSE pct > (30 - sensitivity)

\* variant: both modes divide by 5
detect_motion_same_divisor(pf, pct, sensitivity, simple) ==
  IF simple
    THEN pf # "None" /\ pct > 2 * (30 - sensitivity)
    ELSE pct > 2 * (30 - sensitivity)

\* variant: the FastDifference threshold divides by 10
threshold_background(sensitivity) == 30 - sensitivity

\* threshold = (30 - self.motion_sensitivity) / 5, in tenths of a percent
threshold(sensitivity) == 2 * (30 - sensitivity)

\* CameraManager.detect_motion: the returned boolean.
\* FastDifference: percentage > (30 - sensitivity) / 5;
\* BackgroundModel: percentage > (30 - sensitivity) / 10 (pct in tenths).
detect_motion(pf, pct, sensitivity, simple) ==
  IF simple
    THEN pf # "None" /\ pct > threshold(sensitivity)
    ELSE pct > (30 - sensitivity)

\* CameraManager.detect_motion: the reference frame it leaves behind
detect_motion_prev(pf, size, simple) == IF simple THEN size ELSE pf

\* CameraManager.detect_motion: BackgroundModel feeds every classified frame
\* to background_subtractor.apply, FastDifference leaves the model alone
background_apply(model, simple) == IF simple THEN model ELSE "updated"

\* CameraManager.start_recording: the cv2.VideoWriter object is stored and
\* is_recording is set whether or not the file could be opened
cam_start_recording(opens) == IF opens THEN "open" ELSE "unopened"

\* variant: the first frame of a recording is not written
record_frame_skips_first(rec, writer, n) ==
  IF rec /\ writer = "open" /\ n > 0 THEN n + 1 ELSE n

\* variant: a recorded frame is written twice
record_frame_twice(rec, writer, n) ==
  IF rec /\ writer = "open" THEN n + 2 ELSE n

\* the strftime("%Y%m%d_%H%M%S") stamp in the names of the files of a
\* recording started at time t: whole seconds
Filename(t) == t \div UnitsPerSecond

\* CameraManager.record_frame: frames written to the writer afterwards; a
\* writer that is not opened drops the frame
record_frame(rec, writer, n) == IF rec /\ writer = "open" THEN n + 1 ELSE n

(* ------------------------------------------------------------------ *)
(* AudioManager                                                         *)
(* ------------------------------------------------------------------ *)

\* variant: the two bytes are read as an unsigned number
from_bytes_unsigned(lo, hi) == lo + ByteRange * hi

\* int.from_bytes(data[i:i+2], byteorder='little', signed=True)
from_bytes(lo, hi) ==
  LET u == lo + ByteRange * hi
  IN  IF u >= (ByteRange * ByteRange) \div 2 THEN u - ByteRange * ByteRange
      ELSE u

\* sum(abs(int.from_bytes(data[i:i+2], ...)) for i in range(0, len(data), 2))
RECURSIVE SumMagnitudes(_)
SumMagnitudes(data) ==
  IF Len(data) < 2 THEN 0
  ELSE Abs(from_bytes(data[1], data[2])) + SumMagnitudes(SubSeq(data, 3, Len(data)))

\* energy = sum / (len(data) / 2). The quotient is only compared with the
\* whole number 1500, so it is kept as the least whole number not below it.
Energy(data) ==
  LET n == Len(data) \div 2
  IN  (SumMagnitudes(data) + n - 1) \div n

\* AudioManager.detect_voice: a read of a closed stream raises inside the
\* try block and is reported as no voice
detect_voice(enabled, st, energy) ==
  IF ~enabled \/ st = "None" THEN FALSE
  ELSE IF st = "closed" THEN FALSE
  ELSE energy > EnergyThreshold

\* AudioManager.record_audio: stream.read on a closed stream raises, and
\* nothing catches it
RecordAudioRaises(rec, st) == rec /\ st = "closed"

\* AudioManager.record_audio: length of self.frames afterwards
record_audio(rec, st, n) == IF rec /\ st = "open" THEN n + 1 ELSE n

\* AudioManager.stop_stream: stop and close the stream; self.stream keeps
\* referring to the closed stream (stopping a closed stream again is taken
\* to do nothing)
stop_stream(st) == IF st = "None" THEN "None" ELSE "closed"

(* ------------------------------------------------------------------ *)
(* SecurityApp.update_preview                                           *)
(* ------------------------------------------------------------------ *)

\* variant: the voice detector is consulted again after exactly 300 ms
VoiceCheckDueInclusive(t) == t - last_voice_check_time >= VoiceCheckInterval

\* the voice detector is consulted only every ~300 ms
VoiceCheckDue(t) == t - last_voice_check_time > VoiceCheckInterval

\* variant: the timestamp is refreshed on every monitored tick
StampAlways(detected, t, old) == t

\* self.last_motion_time = time.time() under "if motion_detected", and the
\* same for voice: the timestamp a tick leaves behind
Stamp(detected, t, old) == IF detected THEN t ELSE old

\* variant: the voice detector's result does not start a recording
ShouldStartOnMotionOnly(motion, voice) == motion /\ ~cam_is_recording

\* (motion_detected or voice_detected) and not camera_manager.is_recording
ShouldStart(motion, voice) == (motion \/ voice) /\ ~cam_is_recording

\* variant: the linger comparison is <= instead of <
KeepRecordingInclusive(t, lm, lv, mflag, vflag) ==
  mflag \/ vflag \/ t - Max(lm, lv) <= post_detection_record_time * UnitsPerSecond

\* variant: the linger period is not consulted
KeepRecordingFlagsOnly(t, lm, lv, mflag, vflag) == mflag \/ vflag

\* the "continue recording" condition of update_preview
KeepRecording(t, lm, lv, mflag, vflag) ==
  mflag \/ vflag \/ t - Max(lm, lv) < post_detection_record_time * UnitsPerSecond

\* variant: the early return does not reschedule the tick
SkipTickNoReschedule ==
  /\ scheduled' = FALSE
  /\ ev' = Event(FALSE, FALSE, FALSE, FALSE, "skip")
  /\ UNCHANGED <<destroyed, monitoring, timeVars, camVars, audVars, cfgVars,
                 histVars>>

\* no camera handle, or read() returned no frame: reschedule and return
SkipTick ==
  /\ scheduled' = TRUE
  /\ ev' = Event(FALSE, FALSE, FALSE, FALSE, "skip")
  /\ UNCHANGED <<destroyed, monitoring, timeVars, camVars, audVars, cfgVars,
                 histVars>>

\* monitoring is off: the frame is only displayed
PreviewTick ==
  /\ scheduled' = TRUE
  /\ ev' = Event(TRUE, FALSE, FALSE, FALSE, "preview")
  /\ UNCHANGED <<destroyed, monitoring, timeVars, camVars, audVars, cfgVars,
                 histVars>>

\* detect_motion raised (cv2.error from absdiff): the exception leaves
\* update_preview before anything was assigned and before root.after
DetectRaiseTick ==
  /\ scheduled' = FALSE
  /\ ev' = Event(TRUE, FALSE, FALSE, FALSE, "raised")
  /\ UNCHANGED <<destroyed, monitoring, timeVars, camVars, audVars, cfgVars,
                 histVars>>

MonitoredTick(t, pct, energy, opens) ==
  LET motion == detect_motion(prev_frame, pct, motion_sensitivity,
                              use_simple_motion_detection)
      due    == VoiceCheckDue(t)
      voice  == due /\ detect_voice(voice_detection_enabled, stream, energy)
      lm     == Stamp(motion, t, last_motion_time)
      lv     == Stamp(voice, t, last_voice_time)
      mflag  == motion_detected \/ motion
      vflag  == voice_detected \/ voice
      start  == ShouldStart(motion, voice)
      camrec == cam_is_recording \/ start
      audrec == aud_is_recording \/ start
      writer == IF start THEN cam_start_recording(opens) ELSE video_writer
      nvideo == IF start THEN 0 ELSE video_written
      naudio == IF start THEN 0 ELSE frames
      keep   == KeepRecording(t, lm, lv, mflag, vflag)
      raises == camrec /\ keep /\ RecordAudioRaises(audrec, stream)
  IN
  /\ prev_frame' = detect_motion_prev(prev_frame, resolution,
                                      use_simple_motion_detection)
  /\ background_subtractor' = background_apply(background_subtractor,
                                               use_simple_motion_detection)
  /\ last_voice_check_time' = IF due THEN t ELSE last_voice_check_time
  /\ last_motion_time' = lm
  /\ last_voice_time' = lv
  /\ opened' = IF start THEN opened + 1 ELSE opened
  /\ session_time' = IF start THEN t ELSE session_time
  /\ ev' = Event(TRUE, motion, voice, start,
               IF raises THEN "raised" ELSE IF ~camrec THEN "idle"
               ELSE IF keep THEN "keep" ELSE "stop")
  /\ scheduled' = ~raises
  /\ IF ~camrec
       THEN \* nothing is being recorded
            /\ motion_detected' = mflag
            /\ voice_detected' = vflag
            /\ UNCHANGED <<cam_is_recording, video_writer, video_written,
                           aud_is_recording, frames, video_files, audio_files>>
     ELSE IF keep
       THEN \* record_frame, record_audio, then reset the flags
            /\ cam_is_recording' = TRUE
            /\ video_writer' = writer
            /\ video_written' = record_frame(TRUE, writer, nvideo)
            /\ aud_is_recording' = audrec
            /\ frames' = IF raises THEN naudio
                         ELSE record_audio(audrec, stream, naudio)
            /\ motion_detected' = IF raises THEN mflag ELSE FALSE
            /\ voice_detected' = IF raises THEN vflag ELSE FALSE
            /\ UNCHANGED <<video_files, audio_files>>
       ELSE \* stop_recording of both managers
            /\ cam_is_recording' = FALSE
            /\ video_writer' = "released"
            /\ video_written' = nvideo
            /\ video_files' = video_files + One(writer = "open")
            /\ aud_is_recording' = FALSE
            /\ frames' = IF audrec THEN 0 ELSE naudio
            /\ audio_files' = IF audrec THEN audio_files + 1 ELSE audio_files
            /\ motion_detected' = mflag
            /\ voice_detected' = vflag
  /\ UNCHANGED <<destroyed, monitoring, camera, selected_camera_index,
                 resolution, stream, selected_microphone_index, cfgVars>>

update_preview(gap, ret, pct, energy, opens) ==
  /\ scheduled
  /\ ~destroyed
  /\ ticks' = ticks + 1
  /\ now' = now + gap
  /\ UNCHANGED instVars
  /\ IF ~FrameAcquired(ret) THEN SkipTick
     ELSE IF ~monitoring THEN PreviewTick
     ELSE IF AbsdiffRaises(prev_frame, resolution, use_simple_motion_detection)
       THEN DetectRaiseTick
     ELSE MonitoredTick(now + gap, pct, energy, opens)

(* ------------------------------------------------------------------ *)
(* Handlers of the control surface                                      *)
(* ------------------------------------------------------------------ *)

\* SecurityApp.toggle_monitoring: turning monitoring off stops an active
\* recording of both managers when the camera manager is recording
toggle_monitoring ==
  /\ ~destroyed
  /\ monitoring' = ~monitoring
  /\ IF monitoring /\ cam_is_recording
       THEN /\ cam_is_recording' = FALSE
            /\ video_writer' = "released"
            /\ video_files' = video_files + One(video_writer = "open")
            /\ aud_is_recording' = FALSE
            /\ frames' = IF aud_is_recording THEN 0 ELSE frames
            /\ audio_files' = IF aud_is_recording THEN audio_files + 1
                              ELSE audio_files
       ELSE UNCHANGED <<cam_is_recording, video_writer, video_files,
                        aud_is_recording, frames, audio_files>>
  /\ UNCHANGED <<instVars, probe, ev, now, ticks, scheduled, destroyed, timeVars, camera,
                 selected_camera_index, resolution, prev_frame, video_written,
                 motion_detected, background_subtractor, stream, selected_microphone_index,
                 voice_detected, cfgVars, opened, session_time>>

\* CameraManager.set_camera: stops the video recording only, releases the
\* capture and opens the capture of the new index
CameraSwitch(camera_index, ok) ==
  /\ IF cam_is_recording
       THEN /\ cam_is_recording' = FALSE
            /\ video_writer' = "released"
            /\ video_files' = video_files + One(video_writer = "open")
       ELSE UNCHANGED <<cam_is_recording, video_writer, video_files>>
  /\ selected_camera_index' = camera_index
  /\ camera' = open_camera(ok)

\* variant: switching the camera also clears the reference frame
set_camera_clears_reference(camera_index, ok) ==
  /\ ~destroyed
  /\ CameraSwitch(camera_index, ok)
  /\ prev_frame' = "None"
  /\ UNCHANGED <<instVars, probe, ev, now, ticks, scheduled, destroyed, monitoring,
                 timeVars, resolution, video_written, motion_detected,
                 background_subtractor, audVars, cfgVars, opened,
                 session_time, audio_files>>

\* SecurityApp.change_camera -> CameraManager.set_camera
set_camera(camera_index, ok) ==
  /\ ~destroyed
  /\ CameraSwitch(camera_index, ok)
  /\ UNCHANGED <<instVars, probe, ev, now, ticks, scheduled, destroyed, monitoring, timeVars, resolution,
                 prev_frame, video_written, motion_detected,
                 background_subtractor, audVars, cfgVars,
                 opened, session_time, audio_files>>

\* SecurityApp.update_video_quality: new frame size, then set_camera with
\* the current index
update_video_quality(res, ok) ==
  /\ ~destroyed
  /\ resolution' = res
  /\ CameraSwitch(selected_camera_index, ok)
  /\ UNCHANGED <<instVars, probe, ev, now, ticks, scheduled, destroyed, monitoring, timeVars,
                 prev_frame, video_written, motion_detected,
                 background_subtractor, audVars, cfgVars,
                 opened, session_time, audio_files>>

\* SecurityApp.change_microphone -> AudioManager.set_microphone: stops the
\* audio recording only, closes the stream and opens the new one
set_microphone(mic_index, ok) ==
  /\ ~destroyed
  /\ IF aud_is_recording
       THEN /\ aud_is_recording' = FALSE
            /\ frames' = 0
            /\ audio_files' = audio_files + 1
       ELSE UNCHANGED <<aud_is_recording, frames, audio_files>>
  /\ selected_microphone_index' = mic_index
  /\ stream' = start_stream(ok, stop_stream(stream))
  /\ UNCHANGED <<instVars, probe, ev, now, ticks, scheduled, destroyed, monitoring, timeVars, camVars,
                 voice_detected, cfgVars, opened,
                 session_time, video_files>>

\* SecurityApp.update_motion_method: stores the method and clears prev_frame
update_motion_method(use_simple) ==
  /\ ~destroyed
  /\ use_simple_motion_detection' = use_simple
  /\ prev_frame' = "None"
  /\ UNCHANGED <<instVars, probe, ev, now, ticks, scheduled, destroyed, monitoring, timeVars, camera,
                 selected_camera_index, resolution, cam_is_recording,
                 video_writer, video_written, motion_detected,
                 background_subtractor, audVars, voice_detection_enabled, motion_sensitivity,
                 post_detection_record_time, histVars>>

\* SecurityApp.update_motion_sensitivity: the slider value is stored
update_motion_sensitivity(value) ==
  /\ ~destroyed
  /\ motion_sensitivity' = value
  /\ UNCHANGED <<instVars, probe, ev, now, ticks, scheduled, destroyed, monitoring,
                 timeVars, camVars, audVars, voice_detection_enabled,
                 use_simple_motion_detection, post_detection_record_time,
                 histVars>>

\* SecurityApp.on_closing: stop monitoring, stop an active recording when
\* the camera manager is recording, release the devices, destroy the window
on_closing ==
  /\ ~destroyed
  /\ monitoring' = FALSE
  /\ IF cam_is_recording
       THEN /\ cam_is_recording' = FALSE
            /\ video_writer' = "released"
            /\ video_files' = video_files + One(video_writer = "open")
            /\ aud_is_recording' = FALSE
            /\ frames' = IF aud_is_recording THEN 0 ELSE frames
            /\ audio_files' = IF aud_is_recording THEN audio_files + 1
                              ELSE audio_files
       ELSE UNCHANGED <<cam_is_recording, video_writer, video_files,
                        aud_is_recording, frames, audio_files>>
  /\ camera' = IF camera = "None" THEN "None" ELSE "released"
  /\ stream' = stop_stream(stream)
  /\ destroyed' = TRUE
  /\ scheduled' = FALSE
  /\ UNCHANGED <<instVars, probe, ev, now, ticks, timeVars, selected_camera_index,
                 resolution, prev_frame, video_written, motion_detected,
                 background_subtractor, selected_microphone_index,
                 voice_detected, cfgVars, opened, session_time>>

\* a tick of the running application; the output directory is writable, so
\* the video file of a new recording opens
Tick ==
  /\ ticks < MaxTicks
  /\ \E gap \in TickGaps, ret \in BOOLEAN, pct \in Percentages,
        energy \in Energies : update_preview(gap, ret, pct, energy, TRUE)
  /\ UNCHANGED probe

ChangeCamera == \E i \in CameraIndices, ok \in BOOLEAN : set_camera(i, ok)

ChangeMicrophone == \E i \in MicIndices, ok \in BOOLEAN : set_microphone(i, ok)

ChangeQuality == \E res \in Resolutions, ok \in BOOLEAN :
                    update_video_quality(res, ok)

ChangeMethod == \E use_simple \in BOOLEAN : update_motion_method(use_simple)

Next ==
  \/ Tick
  \/ toggle_monitoring
  \/ ChangeCamera
  \/ ChangeMicrophone
  \/ ChangeQuality
  \/ ChangeMethod
  \/ on_closing

Spec == Init /\ [][Next]_vars

(* ------------------------------------------------------------------ *)
(* The linger scenario: monitoring is started, one recording is opened  *)
(* by an event, and from then on ticks arrive exactly every 100 ms with *)
(* no further activity; each read succeeds or fails.                    *)
(* ------------------------------------------------------------------ *)

\* percentages below the trigger threshold of both detection modes
QuietPercentages ==
  {p \in Percentages : ~detect_motion(prev_frame, p, motion_sensitivity, FALSE)}

\* chunk magnitudes detect_voice does not report
QuietEnergies == {e \in Energies : ~detect_voice(TRUE, "open", e)}

\* the time of the most recent detected motion or voice
LastActivity == Max(last_motion_time, last_voice_time)

LingerStart == ticks = 0 /\ ~monitoring /\ toggle_monitoring

LingerEvent ==
  /\ monitoring
  /\ opened = 0
  /\ ticks < MaxLead
  /\ \E ret \in BOOLEAN, pct \in Percentages, energy \in Energies :
        update_preview(TickPeriod, ret, pct, energy, TRUE)
  /\ UNCHANGED probe

LingerQuiet ==
  /\ opened = 1
  /\ now < LastActivity + post_detection_record_time * UnitsPerSecond + MaxOverrun
  /\ \E ret \in BOOLEAN, pct \in QuietPercentages, energy \in QuietEnergies :
        update_preview(TickPeriod, ret, pct, energy, TRUE)
  /\ UNCHANGED probe

NextLinger == LingerStart \/ LingerEvent \/ LingerQuiet

SpecLinger == Init /\ [][NextLinger]_vars

(* ------------------------------------------------------------------ *)
(* The sink scenario: the application monitors while the video file of  *)
(* a new recording may fail to open (output directory missing or not    *)
(* writable, codec unavailable).                                        *)
(* ------------------------------------------------------------------ *)

SinkTick ==
  /\ ticks < MaxTicks
  /\ \E gap \in TickGaps, ret \in BOOLEAN, pct \in Percentages,
        energy \in Energies, opens \in BOOLEAN :
        update_preview(gap, ret, pct, energy, opens)
  /\ UNCHANGED probe

NextSink == SinkTick \/ toggle_monitoring \/ on_closing

SpecSink == Init /\ [][NextSink]_vars

(* ------------------------------------------------------------------ *)
(* The detector scenario: monitoring is started, the sensitivity slider *)
(* and the detection method are set, quiet ticks may pass, and then one *)
(* tick is probed with a chosen frame difference or a chosen audio      *)
(* chunk; the probe is recorded.                                        *)
(* ------------------------------------------------------------------ *)

Sensitivities == MinSensitivity .. MaxSensitivity

\* changed-pixel percentages probed, in tenths of a percent
ProbePercentages == 0 .. MaxPercentage

\* samples of the probed chunks
SampleValues == {-1600, -1500, 1400, 1500, 1501, 1600}

\* the probed chunks: two samples each
ProbeChunks == {<<a, b>> : a \in SampleValues, b \in SampleValues}

\* a sample as the paInt16 stream delivers it: two bytes, low byte first,
\* two's complement
to_bytes(x) ==
  LET u == IF x < 0 THEN x + ByteRange * ByteRange ELSE x
  IN  <<u % ByteRange, u \div ByteRange>>

\* the bytes stream.read returns for a chunk of samples
RECURSIVE ChunkBytes(_)
ChunkBytes(samples) ==
  IF samples = <<>> THEN <<>>
  ELSE to_bytes(Head(samples)) \o ChunkBytes(Tail(samples))

MotionProbe(pct) == [kind |-> "motion", pct |-> pct]

VoiceProbe(samples) == [kind |-> "voice", samples |-> samples]

DetectSensitivity ==
  /\ probe = NoProbe
  /\ \E value \in Sensitivities : update_motion_sensitivity(value)

DetectMethod == probe = NoProbe /\ ChangeMethod

\* a tick on which nothing moves and nothing is heard
DetectQuiet ==
  /\ probe = NoProbe
  /\ monitoring
  /\ ticks < MaxLead
  /\ update_preview(TickPeriod, TRUE, 0, 0, TRUE)
  /\ UNCHANGED probe

DetectProbeMotion ==
  /\ probe = NoProbe
  /\ monitoring
  /\ FrameAcquired(TRUE)
  /\ \E gap \in TickGaps, pct \in ProbePercentages :
        /\ update_preview(gap, TRUE, pct, 0, TRUE)
        /\ probe' = MotionProbe(pct)

DetectProbeVoice ==
  /\ probe = NoProbe
  /\ monitoring
  /\ FrameAcquired(TRUE)
  /\ \E gap \in TickGaps, samples \in ProbeChunks :
        /\ update_preview(gap, TRUE, 0, Energy(ChunkBytes(samples)), TRUE)
        /\ probe' = VoiceProbe(samples)

NextDetect ==
  \/ LingerStart
  \/ DetectSensitivity
  \/ DetectMethod
  \/ DetectQuiet
  \/ DetectProbeMotion
  \/ DetectProbeVoice

SpecDetect == Init /\ [][NextDetect]_vars

(* ------------------------------------------------------------------ *)
(* The throttle scenario: monitoring is toggled and ticks follow each   *)
(* other after 100 ms or after 300 ms, with a quiet picture and any     *)
(* audio.                                                               *)
(* ------------------------------------------------------------------ *)

ThrottleGaps == {TickPeriod, VoiceCheckInterval}

ThrottleTick ==
  /\ ticks < MaxBurst
  /\ \E gap \in ThrottleGaps, ret \in BOOLEAN, energy \in Energies :
        update_preview(gap, ret, 0, energy, TRUE)
  /\ UNCHANGED probe

NextThrottle == toggle_monitoring \/ ThrottleTick

SpecThrottle == Init /\ [][NextThrottle]_vars

(* ------------------------------------------------------------------ *)
(* The installer (imac-security-installer.py): the Tk main loop handles *)
(* the two buttons and the window's close request, while the daemon     *)
(* thread started by start_installation installs the dependencies. The  *)
(* process ends when the window is destroyed.                           *)
(* ------------------------------------------------------------------ *)

\* start_installation: both buttons are disabled and the thread is started
start_installation ==
  /\ start_button' = [start_button EXCEPT !.state = "disabled"]
  /\ cancel_button' = [cancel_button EXCEPT !.state = "disabled"]
  /\ thread' = "installing"
  /\ dep_index' = 1
  /\ missing' = {}
  /\ UNCHANGED <<installer_root, success, installation_complete,
                 installation_successful>>

\* launch_and_close: the window is destroyed when the application was
\* launched
launch_and_close(launched) ==
  /\ installer_root' = IF launched THEN "destroyed" ELSE installer_root
  /\ UNCHANGED <<thread, dep_index, missing, success, installation_complete,
                 installation_successful, start_button, cancel_button>>

\* a click on start_button: a disabled button does not run its command
ClickStart ==
  /\ installer_root = "alive"
  /\ start_button.state = "normal"
  /\ IF start_button.command = "start_installation"
       THEN start_installation
       ELSE \E launched \in BOOLEAN : launch_and_close(launched)
  /\ UNCHANGED appVars

\* a click on cancel_button, whose command is root.destroy
ClickCancel ==
  /\ installer_root = "alive"
  /\ cancel_button.state = "normal"
  /\ installer_root' = "destroyed"
  /\ UNCHANGED <<thread, dep_index, missing, success, installation_complete,
                 installation_successful, start_button, cancel_button>>
  /\ UNCHANGED appVars

\* on_close, the handler of the window's close request: before completion
\* the user is asked to confirm
on_close(confirmed) ==
  /\ installer_root = "alive"
  /\ installer_root' = IF installation_complete \/ confirmed
                         THEN "destroyed" ELSE installer_root
  /\ UNCHANGED <<thread, dep_index, missing, success, installation_complete,
                 installation_successful, start_button, cancel_button>>
  /\ UNCHANGED appVars

CloseWindow == \E confirmed \in BOOLEAN : on_close(confirmed)

\* install_dependencies, one round of its loop: pip installs the package,
\* fails (the package is appended to missing) or the call raises, which
\* the function's handler turns into the result False
install_dependency(outcome) ==
  /\ installer_root = "alive"
  /\ thread = "installing"
  /\ dep_index <= Len(dependencies)
  /\ IF outcome = "raised"
       THEN /\ thread' = "reporting"
            /\ success' = FALSE
            /\ UNCHANGED <<dep_index, missing>>
       ELSE /\ dep_index' = dep_index + 1
            /\ missing' = IF outcome = "failed"
                            THEN missing \cup {dependencies[dep_index]}
                            ELSE missing
            /\ UNCHANGED <<thread, success>>
  /\ UNCHANGED <<installer_root, installation_complete,
                 installation_successful, start_button, cancel_button>>
  /\ UNCHANGED appVars

InstallDependency ==
  \E outcome \in {"installed", "failed", "raised"} : install_dependency(outcome)

\* install_dependencies after its loop: the packages are imported and the
\* result is True iff nothing is missing and every import succeeded
verify_installations(verification_failures) ==
  /\ installer_root = "alive"
  /\ thread = "installing"
  /\ dep_index > Len(dependencies)
  /\ success' = (missing = {} /\ verification_failures = {})
  /\ thread' = "reporting"
  /\ UNCHANGED <<installer_root, dep_index, missing, installation_complete,
                 installation_successful, start_button, cancel_button>>
  /\ UNCHANGED appVars

VerifyInstallations ==
  \E verification_failures \in SUBSET {dependencies[i] : i \in DOMAIN dependencies} :
     verify_installations(verification_failures)

\* installation_thread after install_dependencies returned: the buttons get
\* their new text and command and installation_complete is set; when a call
\* in the try block raises, the handler offers a retry. Neither path
\* configures the state of a button.
installation_thread(raises) ==
  /\ installer_root = "alive"
  /\ thread = "reporting"
  /\ installation_successful' = success
  /\ start_button' =
       IF raises
         THEN [start_button EXCEPT !.text = "Retry Installation",
                                   !.command = "start_installation"]
         ELSE [start_button EXCEPT !.text = IF success
                                              THEN "Launch Application"
                                              ELSE "Launch Anyway",
                                   !.command = "launch_and_close"]
  /\ cancel_button' = [cancel_button EXCEPT !.text = "Close"]
  /\ installation_complete' = TRUE
  /\ thread' = "ended"
  /\ UNCHANGED <<installer_root, dep_index, missing, success>>
  /\ UNCHANGED appVars

InstallationThread == \E raises \in BOOLEAN : installation_thread(raises)

NextInstaller ==
  \/ ClickStart
  \/ ClickCancel
  \/ CloseWindow
  \/ InstallDependency
  \/ VerifyInstallations
  \/ InstallationThread

SpecInstaller == Init /\ [][NextInstaller]_vars

(* ------------------------------------------------------------------ *)
(* Claims                                                               *)
(* ------------------------------------------------------------------ *)

\* a step of update_preview
TickStep == ticks' = ticks + 1

\* the continue-recording condition as the claims state it, on the values a
\* tick leaves behind
LingerCondition ==
  \/ ev'.motion
  \/ ev'.voice
  \/ now' - Max(last_motion_time', last_voice_time')
       < post_detection_record_time * UnitsPerSecond

\* C1: in every state between operations the video sink is recording
\* exactly when the audio sink is accumulating.
C1_SessionIffRecording == cam_is_recording = aud_is_recording

\* C2: set_camera or set_microphone called while a session is open leaves
\* the whole session finalized: video writer released, audio buffer written,
\* both recording flags false.
C2_SwitchFinalizesSession ==
  [][ ((ChangeCamera \/ ChangeMicrophone) /\ (cam_is_recording \/ aud_is_recording))
      => /\ ~cam_is_recording'
         /\ ~aud_is_recording'
         /\ video_writer' # "open"
         /\ video_files' = video_files + One(cam_is_recording)
         /\ audio_files' = audio_files + One(aud_is_recording) ]_vars

\* C3: start_recording is never executed while a previously opened video
\* writer or audio buffer has not been finalized.
C3_AtMostOneSession ==
  [][ opened' # opened => (video_writer # "open" /\ ~aud_is_recording) ]_vars

\* C4 as stated: while a session is open, a monitored tick that acquires a
\* frame writes the frame and appends an audio chunk iff the linger
\* condition holds, and otherwise releases the video writer and writes the
\* audio file.
C4_LingerRuleAsStated ==
  [][ (TickStep /\ ev'.frame /\ monitoring /\ cam_is_recording)
      => IF LingerCondition
           THEN /\ cam_is_recording'
                /\ video_written' = video_written + 1
                /\ frames' = frames + 1
           ELSE /\ ~cam_is_recording'
                /\ video_writer' = "released"
                /\ audio_files' = audio_files + 1 ]_vars

\* C4 amended: while the video sink is recording, a monitored tick that
\* acquires a frame keeps the session open iff the linger condition holds:
\* it writes the frame, and appends an audio chunk when the audio sink is
\* accumulating and the stream is open; otherwise it releases the video
\* writer and writes the audio file when the audio sink was accumulating.
\* Hence no tick closes a session earlier than post_detection_record_time
\* after the most recent detected motion or voice.
C4_LingerRule ==
  [][ (TickStep /\ ev'.frame /\ monitoring /\ cam_is_recording)
      => IF LingerCondition
           THEN /\ cam_is_recording'
                /\ video_writer' = "open"
                /\ video_written' = video_written + 1
                /\ frames' = frames + One(aud_is_recording /\ stream = "open")
                /\ aud_is_recording' = aud_is_recording
                /\ UNCHANGED <<video_files, audio_files>>
           ELSE /\ ~cam_is_recording'
                /\ ~aud_is_recording'
                /\ video_writer' = "released"
                /\ video_files' = video_files + 1
                /\ audio_files' = audio_files + One(aud_is_recording)
                /\ now' - Max(last_motion_time', last_voice_time')
                     >= post_detection_record_time * UnitsPerSecond ]_vars

\* a monitored tick that read a frame and detected nothing has closed a
\* session because the linger period had passed
C4_Witness ==
  /\ ev.outcome = "stop"
  /\ ev.frame /\ ~ev.motion /\ ~ev.voice
  /\ ~cam_is_recording
  /\ video_writer = "released"
  /\ now - LastActivity >= post_detection_record_time * UnitsPerSecond

\* the linger period in time units
LingerUnits == post_detection_record_time * UnitsPerSecond

\* C5 as stated: a session whose only activity is at t = 0 is recording at
\* t = 9.9 s and closed by t = 10.1 s, whatever reads succeed or fail.
C5_LingerWindowAsStated ==
  opened = 1 =>
    /\ (now - LastActivity <= LingerUnits - TickPeriod => cam_is_recording)
    /\ (now - LastActivity >= LingerUnits + TickPeriod
          => ~cam_is_recording /\ ~aud_is_recording)

\* C5 amended: the session is recording up to t = 9.9 s and is closed by
\* the first tick at or after t = 10.0 s that acquires a frame; a tick whose
\* read fails leaves it open.
C5_LingerWindow ==
  opened = 1 =>
    /\ (now - LastActivity < LingerUnits
          => cam_is_recording /\ aud_is_recording)
    /\ ((now - LastActivity >= LingerUnits /\ ev.frame)
          => /\ ~cam_is_recording
             /\ ~aud_is_recording
             /\ video_files = 1
             /\ audio_files = 1)

\* the tick at t = 10.0 s read a frame and closed the session
C5_Witness ==
  /\ opened = 1
  /\ ev.outcome = "stop"
  /\ now - LastActivity = LingerUnits
  /\ ~cam_is_recording
  /\ video_files = 1

\* C6: a monitored tick that acquires a frame and detects motion or voice
\* while the video sink is not recording opens both sinks on that tick, and
\* no session is opened except by a tick on which a detector reported true.
C6_DetectionOpensSession ==
  [][ /\ (TickStep /\ ev'.frame /\ monitoring /\ (ev'.motion \/ ev'.voice)
            /\ ~cam_is_recording)
         => /\ cam_is_recording'
            /\ aud_is_recording'
            /\ video_writer' = "open"
            /\ opened' = opened + 1
      /\ (opened' # opened \/ (~cam_is_recording /\ cam_is_recording'))
         => (TickStep /\ monitoring /\ ev'.frame /\ (ev'.motion \/ ev'.voice))
    ]_vars

\* a tick on which only the voice detector reported true has opened a session
C6_Witness ==
  /\ ev.started
  /\ ev.voice /\ ~ev.motion
  /\ cam_is_recording
  /\ aud_is_recording
  /\ opened = 1

\* C7: a tick whose frame read fails changes no controller state and
\* schedules the next tick.
C7_FailedReadChangesNothing ==
  [][ (TickStep /\ ~ev'.frame)
      => /\ scheduled'
         /\ UNCHANGED <<destroyed, monitoring, timeVars, camVars, audVars,
                        cfgVars, histVars>> ]_vars

\* a frame read has failed while a session was open, and the session is
\* still open
C7_Witness ==
  /\ ev.outcome = "skip"
  /\ cam_is_recording
  /\ aud_is_recording
  /\ video_writer = "open"
  /\ scheduled

\* C8: after on_closing no session is open and both device handles are
\* released.
C8_ShutdownFinalizes ==
  destroyed =>
    /\ ~cam_is_recording
    /\ ~aud_is_recording
    /\ video_writer # "open"
    /\ camera \in {"None", "released"}
    /\ stream \in {"None", "closed"}

\* C9: after every invocation of update_preview the next one is scheduled:
\* the tick loop runs until shutdown.
C9_LoopKeepsRunning == ~destroyed => scheduled

\* C10: every opened session has exactly one finalized video file and one
\* wave file, or is still open: no writer is left unreleased and no audio
\* buffer is dropped.
C10_OneArtifactPairPerSession ==
  /\ opened = video_files + One(cam_is_recording)
  /\ opened = audio_files + One(aud_is_recording)
  /\ (destroyed => ~cam_is_recording /\ ~aud_is_recording)

\* C11: when the video or audio sink cannot be opened while a session is
\* being started, the session is not created: a video writer that failed to
\* open is never accompanied by a set recording flag.
C11_SinkFailureAbortsSession ==
  video_writer = "unopened" => (~cam_is_recording /\ ~aud_is_recording)

\* C12: after a device failed to open (the capture is not opened, or the
\* audio stream was closed and could not be reopened) every tick completes
\* without raising and schedules the next one, and no session is started
\* from the failed device: no frame comes from the failed camera and no
\* voice is reported from the failed microphone.
C12_DeviceOpenFailureIsSafe ==
  [][ (/\ TickStep
       /\ (camera = "unopened" \/ stream = "closed")
       /\ ~AbsdiffRaises(prev_frame, resolution, use_simple_motion_detection))
      => /\ scheduled'
         /\ ev'.outcome # "raised"
         /\ (camera = "unopened" => opened' = opened)
         /\ (stream = "closed" => ~ev'.voice) ]_vars

\* C13: last_motion_time and last_voice_time never decrease, and each
\* changes only on a tick on which its own detector reported true, when it
\* is set to the time of that tick; no other operation modifies them.
C13_TimestampsMonotone ==
  [][ /\ last_motion_time' >= last_motion_time
      /\ last_voice_time' >= last_voice_time
      /\ (last_motion_time' # last_motion_time
            => TickStep /\ ev'.motion /\ last_motion_time' = now')
      /\ (last_voice_time' # last_voice_time
            => TickStep /\ ev'.voice /\ last_voice_time' = now') ]_vars

\* motion has been detected on one tick and voice on a later one
C13_Witness ==
  /\ last_motion_time > StartTime
  /\ last_voice_time > last_motion_time
  /\ ev.voice /\ ~ev.motion

\* C14: update_motion_method called while a session is open finalizes the
\* session: afterwards both sinks are closed.
C14_ModeSwitchFinalizesSession ==
  [][ (ChangeMethod /\ (cam_is_recording \/ aud_is_recording))
      => /\ ~cam_is_recording'
         /\ ~aud_is_recording'
         /\ video_writer' # "open" ]_vars

\* C15: set_camera or set_microphone called while idle with the currently
\* selected device leaves the controller state unchanged: no session is
\* created, and the recording flags, the timestamps, the selected indices
\* and the reference frame prev_frame keep their values.
C15_IdleSameDeviceSwitch ==
  [][ (/\ ~cam_is_recording
       /\ ~aud_is_recording
       /\ \/ \E ok \in BOOLEAN : set_camera(selected_camera_index, ok)
          \/ \E ok \in BOOLEAN : set_microphone(selected_microphone_index, ok))
      => UNCHANGED <<cam_is_recording, aud_is_recording, timeVars,
                     selected_camera_index, selected_microphone_index,
                     prev_frame, monitoring, video_writer, video_written,
                     frames, histVars>> ]_vars

\* the camera was switched while idle after a reference frame had been
\* stored (the reopened capture did not open), and the reference is kept
C15_Witness ==
  /\ ~destroyed
  /\ camera = "unopened"
  /\ prev_frame # "None"
  /\ opened = 0
  /\ ~cam_is_recording
  /\ ~aud_is_recording

\* C16: the frames written to a session's video file are counted by the
\* ticks of the session that acquired a frame: the tick that opens the
\* session writes the first frame, every later tick that acquires a frame
\* and leaves the session open writes exactly one, and no other step (a
\* failed read, the closing tick, a handler) writes any.
C16_FrameCountMatchesTicks ==
  [][ IF TickStep /\ ev'.frame /\ cam_is_recording'
        THEN video_written' = (IF ev'.started THEN 0 ELSE video_written) + 1
        ELSE video_written' = video_written ]_vars

\* a session has been closed with two frames in its file
C16_Witness ==
  /\ video_writer = "released"
  /\ video_files = 1
  /\ video_written = 2
  /\ opened = 1

\* a probing tick of the detector scenario
ProbeStep(kind) == TickStep /\ probe = NoProbe /\ probe'.kind = kind

\* C17: in FastDifference mode a frame classified while no reference is
\* stored reports no motion, whatever its content and the sensitivity, and
\* becomes the stored reference; the reference is empty at startup and
\* after every update_motion_method.
C17_FirstFrameReportsNoMotion ==
  [][ /\ (/\ TickStep /\ ev'.frame /\ monitoring
          /\ use_simple_motion_detection /\ prev_frame = "None")
         => (~ev'.motion /\ prev_frame' = resolution)
      /\ (ticks = 0 => prev_frame = "None")
      /\ (ChangeMethod => prev_frame' = "None") ]_vars

\* after quiet ticks and a mode switch, a frame that differs enough to
\* trigger at the current sensitivity was classified in FastDifference mode
\* and reported no motion
C17_Witness ==
  /\ probe.kind = "motion"
  /\ probe.pct * 5 > (30 - motion_sensitivity) * PercentScale
  /\ ticks > 1
  /\ use_simple_motion_detection
  /\ ~ev.motion
  /\ prev_frame = resolution

\* C18: for every sensitivity in 1..25 and every changed-pixel percentage,
\* FastDifference with a stored reference reports motion iff
\* percentage > (30 - sensitivity) / 5 and BackgroundModel iff
\* percentage > (30 - sensitivity) / 10; at sensitivity 20 FastDifference
\* reports motion for 2.5% and not for 1.5%.
C18_MotionThresholds ==
  [][ ProbeStep("motion")
      => /\ (use_simple_motion_detection /\ prev_frame # "None")
            => (ev'.motion
                  <=> probe'.pct * 5 > (30 - motion_sensitivity) * PercentScale)
         /\ (~use_simple_motion_detection)
            => (ev'.motion
                  <=> probe'.pct * 10 > (30 - motion_sensitivity) * PercentScale)
         /\ (/\ use_simple_motion_detection /\ prev_frame # "None"
             /\ motion_sensitivity = DefaultSensitivity)
            => /\ (probe'.pct = 25 => ev'.motion)
               /\ (probe'.pct = 15 => ~ev'.motion) ]_vars

\* BackgroundModel at sensitivity 1 has reported motion for 3.0% changed
\* pixels, just above its threshold of 2.9%
C18_Witness ==
  /\ probe.kind = "motion"
  /\ probe.pct = 30
  /\ motion_sensitivity = MinSensitivity
  /\ ~use_simple_motion_detection
  /\ ev.motion

\* sum of the magnitudes of a chunk's samples
RECURSIVE SumAbs(_)
SumAbs(samples) ==
  IF samples = <<>> THEN 0 ELSE Abs(Head(samples)) + SumAbs(Tail(samples))

\* C19: with voice detection enabled and an open stream, detect_voice
\* reports voice iff the mean magnitude of the chunk's samples is strictly
\* greater than 1500: mean 1600 reports voice, 1400 and exactly 1500 do not.
C19_VoiceThreshold ==
  [][ (/\ ProbeStep("voice")
       /\ VoiceCheckDue(now')
       /\ voice_detection_enabled
       /\ stream = "open")
      => /\ (ev'.voice
               <=> SumAbs(probe'.samples) > 1500 * Len(probe'.samples))
         /\ (probe'.samples = <<1600, -1600>> => ev'.voice)
         /\ (probe'.samples = <<1400, 1400>> => ~ev'.voice)
         /\ (probe'.samples = <<-1500, 1500>> => ~ev'.voice) ]_vars

\* a chunk with a negative sample and a mean magnitude of 1500.5 has been
\* reported as voice
C19_Witness ==
  /\ probe.kind = "voice"
  /\ probe.samples = <<-1500, 1501>>
  /\ ev.voice

\* C20: update_motion_method resets all adaptive detector state: afterwards
\* the FastDifference reference frame is empty and the BackgroundModel
\* background estimate is in its initial state.
C20_ModeSwitchResetsDetectorState ==
  [][ ChangeMethod
      => (prev_frame' = "None" /\ background_subtractor' = "initial") ]_vars

\* C21: while a session is active every audio chunk a tick consumes,
\* whether detect_voice or record_audio read it, is appended to the
\* session's buffer; while no session is active the buffer is empty.
C21_AudioChunksRetained ==
  [][ /\ (/\ TickStep /\ ev'.frame /\ monitoring /\ ev'.outcome # "raised"
          /\ aud_is_recording /\ aud_is_recording' /\ opened' = opened)
         => frames' = frames
                      + One(/\ VoiceCheckDue(now')
                            /\ voice_detection_enabled
                            /\ stream = "open")
                      + One(ev'.outcome = "keep" /\ stream = "open")
      /\ (~aud_is_recording => frames = 0) ]_vars

\* C22: detect_voice is invoked at most once per 300 ms: it is invoked only
\* on a tick with monitoring on and a frame read, more than 0.3 s after the
\* previous invocation, and on every other tick voice counts as not
\* detected.
C22_VoiceCheckThrottled ==
  [][ /\ (last_voice_check_time' # last_voice_check_time)
         => /\ TickStep
            /\ monitoring
            /\ ev'.frame
            /\ now' - last_voice_check_time > 3
            /\ last_voice_check_time' = now'
      /\ (TickStep /\ last_voice_check_time' = last_voice_check_time)
         => ~ev'.voice ]_vars

\* a monitored tick exactly 0.3 s after the last invocation of detect_voice
\* has read a frame and has not invoked it again
C22_Witness ==
  /\ monitoring
  /\ ev.frame
  /\ ev.outcome # "preview"
  /\ last_voice_check_time > 0
  /\ now - last_voice_check_time = 3
  /\ ~ev.voice

\* C23: at the end of every tick CameraManager.motion_detected and
\* AudioManager.voice_detected are both false.
C23_FlagsTransient == ~motion_detected /\ ~voice_detected

\* C24 as stated: the FastDifference threshold is about 0.2% at
\* sensitivity 25 and 5.8% at sensitivity 1.
C24_ThresholdRangeAsStated ==
  /\ (motion_sensitivity = MaxSensitivity
        => Abs(threshold(motion_sensitivity) - 2) <= 1)
  /\ (motion_sensitivity = MinSensitivity
        => threshold(motion_sensitivity) = 58)

\* C24: the FastDifference threshold is (30 - sensitivity) / 5 percent: 1.0%
\* at sensitivity 25, 5.8% at sensitivity 1, strictly lower at every higher
\* sensitivity, and no frame at or below it reports motion.
C24_ThresholdRange ==
  /\ threshold(motion_sensitivity) * 5
        = (30 - motion_sensitivity) * PercentScale
  /\ (motion_sensitivity = MaxSensitivity
        => threshold(motion_sensitivity) = 10)
  /\ (motion_sensitivity = MinSensitivity
        => threshold(motion_sensitivity) = 58)
  /\ (motion_sensitivity < MaxSensitivity
        => threshold(motion_sensitivity + 1) < threshold(motion_sensitivity))
  /\ (/\ probe.kind = "motion" /\ use_simple_motion_detection /\ ev.motion)
        => probe.pct > threshold(motion_sensitivity)

\* FastDifference at sensitivity 25 has reported motion for 1.1% changed
\* pixels, just above its threshold of 1.0%
C24_Witness ==
  /\ probe.kind = "motion"
  /\ probe.pct = 11
  /\ motion_sensitivity = MaxSensitivity
  /\ use_simple_motion_detection
  /\ ev.motion

\* C25: toggle_monitoring turning monitoring off finalizes any open session
\* (video writer released, audio buffer written out), and while monitoring
\* is off no tick runs a detector, updates a timestamp, opens a session or
\* writes to a sink.
C25_MonitoringOffIsQuiet ==
  [][ /\ (toggle_monitoring /\ monitoring)
         => /\ ~cam_is_recording'
            /\ ~aud_is_recording'
            /\ video_writer' # "open"
            /\ frames' = 0
      /\ (TickStep /\ ~monitoring)
         => /\ UNCHANGED <<timeVars, camVars, audVars, histVars>>
            /\ ~ev'.motion
            /\ ~ev'.voice
            /\ ~ev'.started ]_vars

\* C26: the audio stream handle is never used after it was closed: no
\* set_microphone, shutdown or reading tick finds self.stream closed.
C26_NoUseAfterClose ==
  [][ (\/ ChangeMicrophone
       \/ on_closing
       \/ (/\ TickStep /\ ev'.frame /\ monitoring
           /\ VoiceCheckDue(now') /\ voice_detection_enabled)
       \/ (/\ TickStep /\ ev'.frame /\ monitoring
           /\ ev'.outcome \in {"keep", "raised"}))
      => stream # "closed" ]_vars

\* C27: in FastDifference mode the stored reference has the dimensions of
\* the frame it is compared with.
C27_ReferenceMatchesFrame ==
  [][ (/\ TickStep /\ ev'.frame /\ monitoring
       /\ use_simple_motion_detection /\ prev_frame # "None")
      => prev_frame = resolution ]_vars

\* C28: two sessions of one run are never given the same file name: the
\* stamp of a newly opened session differs from the stamp of the session
\* opened before it.
C28_DistinctFileNames ==
  [][ (opened' # opened /\ opened > 0)
      => Filename(session_time') # Filename(session_time) ]_vars

\* C29: the tick that opens a session writes the triggering frame and does
\* not close the session, and a session closed by the linger rule holds at
\* least one frame and was open for at least post_detection_record_time
\* seconds.
C29_SessionNotOpenedAndClosedAtOnce ==
  [][ TickStep
      => /\ ev'.started
            => /\ cam_is_recording'
               /\ ev'.outcome # "stop"
               /\ video_written' = 1
         /\ (ev'.outcome = "stop")
            => /\ ~ev'.started
               /\ video_written' >= 1
               /\ now' - session_time >= LingerUnits ]_vars

\* the linger rule has closed a session that holds exactly its triggering
\* frame, post_detection_record_time seconds or more after it was opened
C29_Witness ==
  /\ ev.outcome = "stop"
  /\ ~ev.started
  /\ video_writer = "released"
  /\ video_written = 1
  /\ session_time > 0
  /\ now - session_time >= LingerUnits

\* C30: the installation thread ends with installation_complete set, and
\* once it is set the start button is enabled with the launch or retry
\* command and the cancel/close button is enabled.
C30_UserCanActAfterInstallation ==
  /\ (thread = "ended" => installation_complete)
  /\ (installation_complete /\ installer_root = "alive")
       => /\ start_button.state = "normal"
          /\ start_button.command \in {"launch_and_close", "start_installation"}
          /\ cancel_button.state = "normal"

====
